---- MODULE Spec2Model ----
(***************************************************************************)
(* Model of the bank/ledger reconciliation tool (recon_tool.py): the file  *)
(* loader, the automatic reconciliation pass, the manual group             *)
(* reconciliation and the Streamlit script body that rebuilds the session  *)
(* state when the uploaded file names change.                              *)
(*                                                                         *)
(* Amounts are integers in units of one fifth of a cent (0.002), so every  *)
(* amount and every sum has an unambiguous nearest cent and the float      *)
(* rounding of the code (round(x, 2)) is exactly Round2 below.  A date is  *)
(* a timestamp <<day, time of day>>; a DataFrame is a sequence of records. *)
(***************************************************************************)
EXTENDS Integers, Sequences, FiniteSets, TLC

\* ---------------------------------------------------------------- bounds
MaxBankRows == 2
MaxLedgerRows == 2
MaxRoundsBankRows == 3

\* ------------------------------------------------------- program constants
fuzzy_match_threshold == 80

None == "None"
NaT == <<>>
NaN == <<>>

\* ------------------------------------------------------------ input domain
\* A file is its header row (columns) and its raw rows; a raw row maps each
\* header to a cell.  Date and number cells are written as they come out of
\* pd.to_datetime / pd.to_numeric with errors="coerce": a cell that did not
\* parse is NaT / NaN, written <<>>; a parsed amount v is written <<v>>.
\* Timestamps <<1,0>> and <<1,1>> fall on the same calendar day.
StandardColumns == << "date", "name", "memo", "amount" >>

BankRowDomain ==
  { [date |-> <<1, 0>>, name |-> "Acme Corp", memo |-> "inv", amount |-> <<500>>],
    [date |-> <<2, 0>>, name |-> "Acme Corp", memo |-> "inv", amount |-> <<500>>],
    [date |-> <<1, 0>>, name |-> "Acme Corp", memo |-> "adj", amount |-> <<-2>>] }

LedgerRowDomain ==
  { [date |-> <<1, 1>>, name |-> "ACME CORPORATION", memo |-> "inv", amount |-> <<501>>],
    [date |-> <<1, 0>>, name |-> "Zylo Inc",         memo |-> "fee", amount |-> <<500>>],
    [date |-> <<1, 0>>, name |-> "Acme Corp",        memo |-> "adj", amount |-> <<2>>] }

\* Rows for the automatic pass: names that score exactly 80 ("Smith" and
\* "Smyth"), 100 and 20 against each other, on equal and on different keys.
AutoBankRowDomain ==
  { [date |-> <<1, 0>>, name |-> "Smith",     memo |-> "inv", amount |-> <<500>>],
    [date |-> <<1, 0>>, name |-> "Acme Corp", memo |-> "inv", amount |-> <<500>>],
    [date |-> <<2, 0>>, name |-> "Smith",     memo |-> "inv", amount |-> <<500>>] }

AutoLedgerRowDomain ==
  { [date |-> <<1, 1>>, name |-> "Smyth", memo |-> "inv", amount |-> <<501>>],
    [date |-> <<1, 0>>, name |-> "Smith", memo |-> "inv", amount |-> <<500>>],
    [date |-> <<1, 0>>, name |-> "Smith", memo |-> "inv", amount |-> <<503>>] }

SeqsUpTo(S, n) == UNION { [1..k -> S] : k \in 0..n }

\* the user has two files; either may be put into the bank uploader (the
\* statement, or the ledger file once more), the ledger uploader gets the
\* ledger file
BankFileName == "bank.csv"
LedgerFileName == "ledger.csv"
FileNames == { BankFileName, LedgerFileName }

\* ------------------------------------------------------------- pure helpers
\* str.lower().str.strip() of the names of the input domain
NameLower(n) ==
  CASE n = "Acme Corp"        -> "acme corp"
    [] n = "ACME CORPORATION" -> "acme corporation"
    [] n = "Zylo Inc"         -> "zylo inc"
    [] n = "Smith"            -> "smith"
    [] n = "Smyth"            -> "smyth"

\* fuzzywuzzy fuzz.partial_ratio on the lower-cased names of the input domain
\* (identical strings score 100; a string contained in the other scores 100)
PartialRatio(a, b) ==
  IF a = b THEN 100
  ELSE IF {a, b} = {"acme corp", "acme corporation"} THEN 100
  ELSE IF {a, b} = {"acme corp", "zylo inc"} THEN 14
  ELSE IF {a, b} = {"smith", "smyth"} THEN 80
  ELSE IF {a, b} \cap {"smith", "smyth"} # {} THEN 20
  ELSE 40

\* a rounding that truncates downwards
Round2Truncating(a) == a \div 5

\* round(x, 2): the nearest cent of an amount given in fifths of a cent
Round2(a) == (a + 2) \div 5

\* dt.strftime('%Y-%m-%d'): the calendar day of a timestamp
DateStr(d) == d[1]

RECURSIVE SumAmount(_)
SumAmount(df) == IF df = <<>> THEN 0 ELSE Head(df).amount + SumAmount(Tail(df))

RowIds(df) == { df[i].row_id : i \in 1..Len(df) }

\* df[df['row_id'].isin(ids)]
IsIn(df, ids) == SelectSeq(df, LAMBDA r : r.row_id \in ids)

\* df[~df['row_id'].isin(ids)]
NotIn(df, ids) == SelectSeq(df, LAMBDA r : r.row_id \notin ids)

\* the columns kept for display (name_lower and the helper columns dropped)
DropHelper(r) ==
  [row_id |-> r.row_id, date |-> r.date, name |-> r.name, memo |-> r.memo, amount |-> r.amount]

NoMessage == [kind |-> "none", values |-> <<>>]

VARIABLES
  disk,                        \* file name -> raw rows of the user's file
  bank_file, ledger_file,      \* the two file_uploader widgets (name or None)
  cache,                       \* st.cache_data of load_and_preprocess_file
  uuid_counter,                \* number of uuid4 values issued so far
  initial_unmatched_computed,  \* st.session_state fields
  bank_file_name, ledger_file_name,
  bank_df_full, ledger_df_full,
  unmatched_bank_display, unmatched_ledger_display,
  message,                     \* what the last script run reported
  matched_pairs,               \* pairs accepted by the automatic pass (history)
  matched_bank, matched_ledger \* ids committed as matched in this session (history)

vars == << disk, bank_file, ledger_file, cache, uuid_counter,
           initial_unmatched_computed, bank_file_name, ledger_file_name,
           bank_df_full, ledger_df_full,
           unmatched_bank_display, unmatched_ledger_display,
           message, matched_pairs, matched_bank, matched_ledger >>

\* ----------------------------------------------------- find_closest_column
\* the default of the parameter "threshold"
threshold == 80

\* col.strip().lower() of the headers of the input domain
CleanHeader(col) ==
  CASE col = "Date"    -> "date"
    [] col = "Name"    -> "name"
    [] col = "Memo"    -> "memo"
    [] col = "Amount"  -> "amount"
    [] col = "Debit"   -> "debit"
    [] col = "Credit"  -> "credit"
    [] col = "Amounts" -> "amounts"
    [] col = "Posted"  -> "posted"
    [] col = "Payee"   -> "payee"
    [] col = "Notes"   -> "notes"
    [] OTHER           -> col

\* fuzzywuzzy fuzz.ratio(cleaned header, lower-cased target) for the headers
\* of the input domain
FuzzRatioTable ==
  [ date    |-> [date |-> 100, name |-> 50, memo |-> 25, amount |-> 40, debit |-> 44, credit |-> 40],
    name    |-> [date |-> 50, name |-> 100, memo |-> 50, amount |-> 40, debit |-> 22, credit |-> 20],
    memo    |-> [date |-> 25, name |-> 50, memo |-> 100, amount |-> 40, debit |-> 22, credit |-> 20],
    amount  |-> [date |-> 40, name |-> 40, memo |-> 40, amount |-> 100, debit |-> 18, credit |-> 17],
    debit   |-> [date |-> 44, name |-> 22, memo |-> 22, amount |-> 18, debit |-> 100, credit |-> 55],
    credit  |-> [date |-> 20, name |-> 20, memo |-> 20, amount |-> 17, debit |-> 55, credit |-> 100],
    amounts |-> [date |-> 36, name |-> 36, memo |-> 36, amount |-> 92, debit |-> 17, credit |-> 15],
    posted  |-> [date |-> 40, name |-> 20, memo |-> 20, amount |-> 33, debit |-> 18, credit |-> 33],
    payee   |-> [date |-> 44, name |-> 44, memo |-> 22, amount |-> 18, debit |-> 20, credit |-> 18],
    notes   |-> [date |-> 44, name |-> 44, memo |-> 22, amount |-> 36, debit |-> 20, credit |-> 18] ]

FuzzRatio(cleaned_col, target_lower) == FuzzRatioTable[cleaned_col][target_lower]

\* "fuzz.ratio(best_match[1], target_name.lower()) >= threshold"
ReachesThreshold(score) == score >= threshold

\* the header that max() picks (the first of the best scoring ones), if its
\* score reaches the threshold
FindClosestColumn(df_columns_list, target_name) ==
  IF df_columns_list = <<>> THEN None
  ELSE LET score(i) == FuzzRatio(CleanHeader(df_columns_list[i]), CleanHeader(target_name))
           best_match == CHOOSE i \in 1..Len(df_columns_list) :
                           /\ \A j \in 1..Len(df_columns_list) : score(j) <= score(i)
                           /\ \A j \in 1..(i - 1) : score(j) < score(i)
       IN  IF ReachesThreshold(score(best_match)) THEN df_columns_list[best_match] ELSE None

\* ----------------------------------------------------- load_and_preprocess
\* the names appended to missing_cols
MissingCols(date_col, name_col, memo_col) ==
  SelectSeq(<< "Date", "Name", "Memo" >>,
            LAMBDA t : \/ (t = "Date" /\ date_col = None)
                       \/ (t = "Name" /\ name_col = None)
                       \/ (t = "Memo" /\ memo_col = None))

\* the test with "or" in place of "and"
CanDeriveAmountFromEither(credit_col, debit_col) == credit_col # None \/ debit_col # None

\* "credit_col and debit_col"
CanDeriveAmount(credit_col, debit_col) == credit_col # None /\ debit_col # None

\* the six calls of find_closest_column on the header row of a file
ResolveColumns(columns) ==
  [date_col   |-> FindClosestColumn(columns, "Date"),
   name_col   |-> FindClosestColumn(columns, "Name"),
   memo_col   |-> FindClosestColumn(columns, "Memo"),
   amount_col |-> FindClosestColumn(columns, "Amount"),
   debit_col  |-> FindClosestColumn(columns, "Debit"),
   credit_col |-> FindClosestColumn(columns, "Credit")]

\* the st.error that stops the script, if any, given the resolved columns
LoadError(cols) ==
  IF MissingCols(cols.date_col, cols.name_col, cols.memo_col) # <<>>
  THEN [kind |-> "error_missing_columns",
        values |-> MissingCols(cols.date_col, cols.name_col, cols.memo_col)]
  ELSE IF cols.amount_col = None /\ ~CanDeriveAmount(cols.credit_col, cols.debit_col)
  THEN [kind |-> "error_missing_amount", values |-> <<>>]
  ELSE NoMessage

\* pd.to_numeric(..., errors="coerce").fillna(0)
FillNa0(cell) == IF cell = NaN THEN 0 ELSE cell[1]

\* the subtraction the other way round
RawAmountDebitMinusCredit(r, cols) ==
  IF cols.amount_col = None
  THEN << FillNa0(r[cols.debit_col]) - FillNa0(r[cols.credit_col]) >>
  ELSE r[cols.amount_col]

\* df["amount"] of a raw row: the amount column, or credit - debit
RawAmount(r, cols) ==
  IF cols.amount_col = None
  THEN << FillNa0(r[cols.credit_col]) - FillNa0(r[cols.debit_col]) >>
  ELSE r[cols.amount_col]

\* a filter that keeps the zero amounts
KeepsAmountAlsoZero(amount) == amount # NaN

\* dropna(subset=["amount"]) and df["amount"] != 0
KeepsAmount(amount) == amount # NaN /\ amount # <<0>>

\* the raw rows surviving dropna(date), dropna(amount) and amount != 0
KeptRows(rows, cols) ==
  SelectSeq(rows, LAMBDA r : r[cols.date_col] # NaT /\ KeepsAmount(RawAmount(r, cols)))

\* the renamed columns of the kept rows, with a fresh uuid4 each and the
\* lower-cased name
Transactions(kept, cols, first_id) ==
  [ i \in 1..Len(kept) |->
      [row_id |-> first_id + i, date |-> kept[i][cols.date_col],
       name |-> kept[i][cols.name_col], memo |-> kept[i][cols.memo_col],
       amount |-> RawAmount(kept[i], cols)[1],
       name_lower |-> NameLower(kept[i][cols.name_col])] ]

\* a reader that goes on where the previous call stopped instead of
\* starting at the first row of the file
PreprocessReadingOn(file, cols, first_id) ==
  Transactions(KeptRows(SubSeq(file.rows, first_id + 1, Len(file.rows)), cols), cols, first_id)

\* the frame returned for a file whose header row raises no error
Preprocess(file, cols, first_id) ==
  Transactions(KeptRows(file.rows, cols), cols, first_id)

CacheKey(f) == << disk[f], f >>

\* a call that found its result in the cache
CacheHit(f, c, n) == [df |-> c[CacheKey(f)], cache |-> c, counter |-> n, error |-> NoMessage]

\* a call stopped by st.stop(): nothing is returned and nothing is cached
LoadStopped(c, n, error) == [df |-> <<>>, cache |-> c, counter |-> n, error |-> error]

\* a call that ran to its end: the frame is returned and cached
LoadReturned(f, c, n, df) ==
  [df |-> df,
   cache |-> [k \in DOMAIN c \cup {CacheKey(f)} |-> IF k = CacheKey(f) THEN df ELSE c[k]],
   counter |-> n + Len(df),
   error |-> NoMessage]

\* the body of the function, given the resolved columns
LoadUncached(f, c, n, cols) ==
  IF LoadError(cols) # NoMessage
  THEN LoadStopped(c, n, LoadError(cols))
  ELSE LoadReturned(f, c, n, Preprocess(disk[f], cols, n))

\* the returned frame, the cache and the uuid counter after one (cached)
\* call, or the error that stopped it
LoadAndPreprocessFile(f, c, n) ==
  IF CacheKey(f) \in DOMAIN c
  THEN CacheHit(f, c, n)
  ELSE LoadUncached(f, c, n, ResolveColumns(disk[f].columns))

\* ------------------------------------------- perform_automatic_reconciliation
\* a merge on the rounded amount alone
MergeKeyWithoutDate(r) == << Round2(r.amount) >>

\* a merge on the amount as loaded, not rounded
MergeKeyUnrounded(r) == << DateStr(r.date), r.amount >>

\* the merge key: (date_str, amount_rounded)
MergeKey(r) == << DateStr(r.date), Round2(r.amount) >>

\* pd.merge(bank, ledger, on=[date_str, amount_rounded], how='inner'): the
\* rows of the left frame in order, each with its key-equal right rows in order
RECURSIVE MergeExact(_, _)
MergeExact(bank, ledger) ==
  IF bank = <<>> THEN <<>>
  ELSE LET b == Head(bank)
           right == SelectSeq(ledger, LAMBDA l : MergeKey(l) = MergeKey(b))
       IN  [ i \in 1..Len(right) |-> [bank |-> b, ledger |-> right[i]] ]
             \o MergeExact(Tail(bank), ledger)

\* the test with ">=" in place of ">"
FuzzyAcceptAtThreshold(row) ==
  PartialRatio(row.bank.name_lower, row.ledger.name_lower) >= fuzzy_match_threshold

\* the test that accepts a candidate row of the merge
FuzzyAccept(row) ==
  PartialRatio(row.bank.name_lower, row.ledger.name_lower) > fuzzy_match_threshold

\* the test with "and" in place of "or"
AlreadyMatchedOnBothSides(bank_id, ledger_id, acc) ==
  bank_id \in acc.matched_bank_ids /\ ledger_id \in acc.matched_ledger_ids

\* the test on the sets themselves: "matched_bank_ids or matched_ledger_ids"
AlreadyMatchedAny(bank_id, ledger_id, acc) ==
  acc.matched_bank_ids # {} \/ acc.matched_ledger_ids # {}

\* "bank_id in matched_bank_ids or ledger_id in matched_ledger_ids"
AlreadyMatched(bank_id, ledger_id, acc) ==
  bank_id \in acc.matched_bank_ids \/ ledger_id \in acc.matched_ledger_ids

\* the loop over merged_exact.iterrows(); acc holds matched_bank_ids,
\* matched_ledger_ids and (history) the accepted rows
RECURSIVE FuzzyLoop(_, _)
FuzzyLoop(merged, acc) ==
  IF merged = <<>> THEN acc
  ELSE LET row == Head(merged)
           bank_id == row.bank.row_id
           ledger_id == row.ledger.row_id
       IN  IF AlreadyMatched(bank_id, ledger_id, acc)
           THEN FuzzyLoop(Tail(merged), acc)
           ELSE IF FuzzyAccept(row)
           THEN FuzzyLoop(Tail(merged),
                  [matched_bank_ids |-> acc.matched_bank_ids \cup {bank_id},
                   matched_ledger_ids |-> acc.matched_ledger_ids \cup {ledger_id},
                   pairs |-> Append(acc.pairs, row)])
           ELSE FuzzyLoop(Tail(merged), acc)

\* the matched rows kept instead of the unmatched ones
UnmatchedKeepsMatched(df, matched_ids) ==
  LET rest == IsIn(df, matched_ids)
  IN  [ i \in 1..Len(rest) |-> DropHelper(rest[i]) ]

\* the rows left unmatched, without the helper columns
Unmatched(df, matched_ids) ==
  LET rest == NotIn(df, matched_ids)
  IN  [ i \in 1..Len(rest) |-> DropHelper(rest[i]) ]

\* a pass whose sets of matched ids outlive the call: it starts from the
\* ids matched in the session so far
PerformAutomaticReconciliationKeepingIds(bank_df, ledger_df) ==
  LET acc == FuzzyLoop(MergeExact(bank_df, ledger_df),
                       [matched_bank_ids |-> matched_bank, matched_ledger_ids |-> matched_ledger,
                        pairs |-> <<>>])
  IN  [unmatched_bank |-> Unmatched(bank_df, acc.matched_bank_ids),
       unmatched_ledger |-> Unmatched(ledger_df, acc.matched_ledger_ids),
       matched_bank_ids |-> acc.matched_bank_ids,
       matched_ledger_ids |-> acc.matched_ledger_ids,
       pairs |-> acc.pairs]

PerformAutomaticReconciliation(bank_df, ledger_df) ==
  LET acc == FuzzyLoop(MergeExact(bank_df, ledger_df),
                       [matched_bank_ids |-> {}, matched_ledger_ids |-> {}, pairs |-> <<>>])
  IN  [unmatched_bank |-> Unmatched(bank_df, acc.matched_bank_ids),
       unmatched_ledger |-> Unmatched(ledger_df, acc.matched_ledger_ids),
       matched_bank_ids |-> acc.matched_bank_ids,
       matched_ledger_ids |-> acc.matched_ledger_ids,
       pairs |-> acc.pairs]

\* ------------------------------------------------------------ script body
\* the test without the comparison of the bank file name
NeedsRebuildIgnoresBankName(bf, lf) ==
  \/ ~initial_unmatched_computed
  \/ ledger_file_name # lf

\* the test of the session rebuild block
NeedsRebuild(bf, lf) ==
  \/ ~initial_unmatched_computed
  \/ bank_file_name # bf
  \/ ledger_file_name # lf

\* the fields of st.session_state that hold the reconciliation
SessionState ==
  << initial_unmatched_computed, bank_file_name, ledger_file_name,
     bank_df_full, ledger_df_full, unmatched_bank_display, unmatched_ledger_display,
     matched_pairs, matched_bank, matched_ledger >>

\* a stop that empties the session on its way out
StoppedResetsSession ==
  /\ initial_unmatched_computed' = FALSE
  /\ unmatched_bank_display' = <<>>
  /\ unmatched_ledger_display' = <<>>
  /\ UNCHANGED << bank_file_name, ledger_file_name, bank_df_full, ledger_df_full,
                  matched_pairs, matched_bank, matched_ledger >>

\* st.stop() inside the loader: the rest of the rebuild block is not run
Stopped == UNCHANGED SessionState

\* the assignments of the rebuild block
Rebuild(bf, lf, bl, ll, auto) ==
  /\ message' = NoMessage
  /\ cache' = ll.cache
  /\ uuid_counter' = ll.counter
  /\ unmatched_bank_display' = auto.unmatched_bank
  /\ unmatched_ledger_display' = auto.unmatched_ledger
  /\ initial_unmatched_computed' = TRUE
  /\ bank_file_name' = bf
  /\ ledger_file_name' = lf
  /\ bank_df_full' = bl.df
  /\ ledger_df_full' = ll.df
  /\ matched_pairs' = auto.pairs
  /\ matched_bank' = auto.matched_bank_ids
  /\ matched_ledger' = auto.matched_ledger_ids

\* the rebuild block from the second call of the loader on
RebuildAfterLedger(bf, lf, bl, ll) ==
  IF ll.error # NoMessage
  THEN /\ message' = ll.error
       /\ Stopped
       /\ cache' = bl.cache
       /\ uuid_counter' = bl.counter
  ELSE Rebuild(bf, lf, bl, ll, PerformAutomaticReconciliation(bl.df, ll.df))

\* the rebuild block from the first call of the loader on
RebuildAfterBank(bf, lf, bl) ==
  IF bl.error # NoMessage
  THEN /\ message' = bl.error
       /\ Stopped
       /\ UNCHANGED << cache, uuid_counter >>
  ELSE RebuildAfterLedger(bf, lf, bl, LoadAndPreprocessFile(lf, bl.cache, bl.counter))

\* one run of the script, up to the form, with the uploaders holding bf and lf
RunScript(bf, lf) ==
  IF bf # None /\ lf # None /\ NeedsRebuild(bf, lf)
  THEN RebuildAfterBank(bf, lf, LoadAndPreprocessFile(bf, cache, uuid_counter))
  ELSE /\ message' = NoMessage
       /\ UNCHANGED << cache, uuid_counter >>
       /\ UNCHANGED SessionState

\* the messages of perform_manual_reconciliation
ManualMessageKinds ==
  { "warning_empty_selection", "error_not_found", "success", "error_sum_mismatch" }

\* the user puts a file into the bank uploader and the script reruns, from
\* an empty page
UploadBank(f) ==
  /\ f # bank_file
  /\ message.kind \notin ManualMessageKinds
  /\ bank_file' = f
  /\ RunScript(f, ledger_file)
  /\ UNCHANGED << disk, ledger_file >>

\* the user puts a file into the ledger uploader and the script reruns
UploadLedger(f) ==
  /\ f # ledger_file
  /\ message.kind \notin ManualMessageKinds
  /\ ledger_file' = f
  /\ RunScript(bank_file, f)
  /\ UNCHANGED << disk, bank_file >>

\* ---------------------------------------------- perform_manual_reconciliation
\* the test with "and" in place of "or"
EmptySelectionOnBothSides(selected_bank_row_ids, selected_ledger_row_ids) ==
  selected_bank_row_ids = {} /\ selected_ledger_row_ids = {}

\* "not selected_bank_row_ids or not selected_ledger_row_ids"
EmptySelection(selected_bank_row_ids, selected_ledger_row_ids) ==
  selected_bank_row_ids = {} \/ selected_ledger_row_ids = {}

\* the test with "and" in place of "or"
ItemsNotFoundOnBothSides(bank_items, ledger_items) ==
  bank_items = <<>> /\ ledger_items = <<>>

\* "bank_items.empty or ledger_items.empty"
ItemsNotFound(bank_items, ledger_items) ==
  bank_items = <<>> \/ ledger_items = <<>>

\* the sum compared without rounding
RoundedSumUnrounded(items) == SumAmount(items)

\* round(items['amount'].sum(), 2), in cents
RoundedSum(items) == Round2(SumAmount(items))

\* a comparison with a one-cent tolerance instead of equality
SumsMatchWithinOneCent(bank_sum_amount, ledger_sum_amount) ==
  /\ bank_sum_amount - ledger_sum_amount <= 1
  /\ ledger_sum_amount - bank_sum_amount <= 1

\* "bank_sum_amount == ledger_sum_amount"
SumsMatch(bank_sum_amount, ledger_sum_amount) ==
  bank_sum_amount = ledger_sum_amount

\* the removal applied to the full frame of the side instead of its
\* unmatched list
RemoveSelectedFromFull(display, selected_row_ids) ==
  LET full == IF display = unmatched_bank_display THEN bank_df_full ELSE ledger_df_full
      rest == NotIn(full, selected_row_ids)
  IN  [ i \in 1..Len(rest) |-> DropHelper(rest[i]) ]

\* the rows that stay, last one first
RemoveSelectedReversed(display, selected_row_ids) ==
  LET rest == NotIn(display, selected_row_ids)
  IN  [ i \in 1..Len(rest) |-> rest[Len(rest) + 1 - i] ]

\* a filter that lost its negation
RemoveSelectedKeepsSelected(display, selected_row_ids) == IsIn(display, selected_row_ids)

\* display[~display['row_id'].isin(selected)].reset_index(drop=True)
RemoveSelected(display, selected_row_ids) == NotIn(display, selected_row_ids)

\* the outcome of one call on the current unmatched lists: the message, the
\* two lists afterwards and (history) the ids of the two groups whose sums
\* agreed
PerformManualReconciliation(selected_bank_row_ids, selected_ledger_row_ids) ==
  LET bank_df_display == unmatched_bank_display
      ledger_df_display == unmatched_ledger_display
      bank_items == IsIn(bank_df_display, selected_bank_row_ids)
      ledger_items == IsIn(ledger_df_display, selected_ledger_row_ids)
      bank_sum_amount == RoundedSum(bank_items)
      ledger_sum_amount == RoundedSum(ledger_items)
      bank_after == RemoveSelected(bank_df_display, selected_bank_row_ids)
      ledger_after == RemoveSelected(ledger_df_display, selected_ledger_row_ids)
  IN  IF EmptySelection(selected_bank_row_ids, selected_ledger_row_ids)
      THEN [message |-> [kind |-> "warning_empty_selection", values |-> <<>>],
            bank |-> bank_df_display, ledger |-> ledger_df_display,
            committed_bank |-> {}, committed_ledger |-> {}]
      ELSE IF ItemsNotFound(bank_items, ledger_items)
      THEN [message |-> [kind |-> "error_not_found", values |-> <<>>],
            bank |-> bank_df_display, ledger |-> ledger_df_display,
            committed_bank |-> {}, committed_ledger |-> {}]
      ELSE IF SumsMatch(bank_sum_amount, ledger_sum_amount)
      THEN [message |-> [kind |-> "success",
                         values |-> << Cardinality(selected_bank_row_ids), bank_sum_amount,
                                       Cardinality(selected_ledger_row_ids), ledger_sum_amount,
                                       Len(bank_after), Len(ledger_after) >>],
            bank |-> bank_after, ledger |-> ledger_after,
            committed_bank |-> RowIds(bank_items), committed_ledger |-> RowIds(ledger_items)]
      ELSE [message |-> [kind |-> "error_sum_mismatch",
                         values |-> << bank_sum_amount, ledger_sum_amount >>],
            bank |-> bank_df_display, ledger |-> ledger_df_display,
            committed_bank |-> {}, committed_ledger |-> {}]

\* the user submits the reconciliation form with the given ids ticked.  The
\* form exists only while both uploaders hold a file; the rebuild block of
\* the rerun does nothing because the file names have not changed.  Every
\* run of the script starts from an empty page, so the form is evaluated
\* with the message of the previous run gone.  The ids are any ids of the
\* session: one that has left the unmatched list is a stale selection.
Submit(selected_bank_ids, selected_ledger_ids) ==
  /\ bank_file # None /\ ledger_file # None
  /\ message = NoMessage
  /\ ~NeedsRebuild(bank_file, ledger_file)
  /\ LET r == PerformManualReconciliation(selected_bank_ids, selected_ledger_ids)
     IN  /\ unmatched_bank_display' = r.bank
         /\ unmatched_ledger_display' = r.ledger
         /\ message' = r.message
         /\ matched_bank' = matched_bank \cup r.committed_bank
         /\ matched_ledger' = matched_ledger \cup r.committed_ledger
  /\ UNCHANGED << disk, bank_file, ledger_file, cache, uuid_counter,
                  initial_unmatched_computed, bank_file_name, ledger_file_name,
                  bank_df_full, ledger_df_full, matched_pairs >>

\* any other rerun of the script: the page is drawn anew, without the
\* message of the previous run; a file that stopped the script stops it again
Rerun ==
  /\ message # NoMessage
  /\ RunScript(bank_file, ledger_file)
  /\ UNCHANGED << disk, bank_file, ledger_file >>

\* a file of the standard header row
StandardFile(rows) == [columns |-> StandardColumns, rows |-> rows]

\* st.session_state as the defaults of the script leave it, both uploaders
\* empty, nothing cached
EmptySession ==
  /\ bank_file = None
  /\ ledger_file = None
  /\ cache = [k \in {} |-> <<>>]
  /\ uuid_counter = 0
  /\ initial_unmatched_computed = FALSE
  /\ bank_file_name = None
  /\ ledger_file_name = None
  /\ bank_df_full = <<>>
  /\ ledger_df_full = <<>>
  /\ unmatched_bank_display = <<>>
  /\ unmatched_ledger_display = <<>>
  /\ message = NoMessage
  /\ matched_pairs = <<>>
  /\ matched_bank = {}
  /\ matched_ledger = {}

Init ==
  /\ \E b \in SeqsUpTo(BankRowDomain, MaxBankRows), l \in SeqsUpTo(LedgerRowDomain, MaxLedgerRows) :
       disk = [f \in FileNames |-> StandardFile(IF f = BankFileName THEN b ELSE l)]
  /\ EmptySession

Next ==
  \/ \E f \in FileNames : UploadBank(f)
  \/ UploadLedger(LedgerFileName)
  \/ \E sb \in SUBSET RowIds(bank_df_full), sl \in SUBSET RowIds(ledger_df_full) : Submit(sb, sl)
  \/ Rerun

Spec == Init /\ [][Next]_vars

\* ------------------------------------------------- a file uploaded again
\* the rows of the statement after the user has corrected it
ReplacedBankRows ==
  << [date |-> <<2, 0>>, name |-> "Acme Corp", memo |-> "inv", amount |-> <<500>>] >>

\* the user puts the corrected statement, under its old name, into the bank
\* uploader while a session is open: the script reruns and skips the rebuild
\* block, the file names being the ones of the session
ReplaceBankFile(rows) ==
  /\ bank_file = BankFileName /\ ledger_file # None
  /\ message.kind \notin ManualMessageKinds
  /\ ~NeedsRebuild(bank_file, ledger_file)
  /\ disk[bank_file] # StandardFile(rows)
  /\ disk' = [disk EXCEPT ![bank_file] = StandardFile(rows)]
  /\ message' = NoMessage
  /\ UNCHANGED << bank_file, ledger_file, cache, uuid_counter >>
  /\ UNCHANGED SessionState

NextReplace ==
  \/ Next
  \/ ReplaceBankFile(ReplacedBankRows)

SpecReplace == Init /\ [][NextReplace]_vars

\* ------------------------------------------------------------ the loader
\* Header rows for the loader: an amount column, an amount column found by
\* similarity ("Amounts"), debit and credit columns, and header rows that
\* lack a required column.
ColumnsAmount == << "Date", "Name", "Memo", "Amount" >>
ColumnsAmounts == << "Date", "Name", "Memo", "Amounts" >>
ColumnsDebitCredit == << "Date", "Name", "Memo", "Debit", "Credit" >>

ColumnsInError ==
  { << "Posted", "Name", "Memo", "Amount" >>,
    << "Date", "Payee", "Memo", "Amount" >>,
    << "Date", "Name", "Notes", "Amount" >>,
    << "Posted", "Payee", "Memo", "Amount" >>,
    << "Date", "Name", "Memo", "Debit" >>,
    << "Date", "Name", "Memo", "Credit" >> }

\* the cells of a row with an amount: a good row, a zero amount, an amount
\* that did not parse and a date that did not parse
AmountCells ==
  { << <<1, 0>>, "Acme Corp", "inv", <<500>> >>,
    << <<1, 0>>, "Acme Corp", "nil", <<0>> >>,
    << <<1, 0>>, "Acme Corp", "bad", <<>> >>,
    << <<>>,     "Acme Corp", "nod", <<500>> >> }

\* the cells of a row with a debit and a credit: a credit of 1.00, a debit
\* of 0.40 beside a credit of 1.00, debit equal to credit, a credit that is
\* not a number (beside a debit of 1.00), neither a number, and a date that
\* did not parse
DebitCreditCells ==
  { << <<1, 0>>, "Acme Corp", "inv", <<0>>,   <<500>> >>,
    << <<1, 0>>, "Acme Corp", "net", <<200>>, <<500>> >>,
    << <<1, 0>>, "Acme Corp", "nil", <<500>>, <<500>> >>,
    << <<1, 0>>, "Acme Corp", "bad", <<500>>, <<>> >>,
    << <<1, 0>>, "Acme Corp", "bb",  <<>>,    <<>> >>,
    << <<>>,     "Acme Corp", "nod", <<0>>,   <<500>> >> }

\* the raw row that has the given cells under the given headers
RowOf(columns, cells) ==
  [ h \in { columns[i] : i \in 1..Len(columns) } |->
      cells[CHOOSE i \in 1..Len(columns) : columns[i] = h] ]

\* the files of a header row whose rows take their cells from a set
FilesOf(columns, cell_domain, n) ==
  { [columns |-> columns, rows |-> [ i \in 1..Len(cs) |-> RowOf(columns, cs[i]) ]] :
      cs \in SeqsUpTo(cell_domain, n) }

GoodCells == << <<1, 0>>, "Acme Corp", "inv", <<500>> >>

BankLoadFiles ==
  FilesOf(ColumnsAmount, AmountCells, MaxBankRows)
    \cup FilesOf(ColumnsAmounts, AmountCells, MaxBankRows)
    \cup FilesOf(ColumnsDebitCredit, DebitCreditCells, MaxBankRows)
    \cup { [columns |-> c, rows |-> << RowOf(c, GoodCells) >>] : c \in ColumnsInError }

\* a ledger row that no bank row resembles
LedgerCells == << <<1, 0>>, "Zylo Inc", "fee", <<500>> >>

LedgerLoadFiles ==
  { [columns |-> ColumnsAmount, rows |-> << RowOf(ColumnsAmount, LedgerCells) >>],
    [columns |-> << "Date", "Name", "Memo", "Debit" >>,
     rows |-> << RowOf(<< "Date", "Name", "Memo", "Debit" >>, GoodCells) >>] }

InitLoad ==
  /\ \E b \in BankLoadFiles, l \in LedgerLoadFiles :
       disk = [f \in FileNames |-> IF f = BankFileName THEN b ELSE l]
  /\ EmptySession

SpecLoad == InitLoad /\ [][Next]_vars

\* -------------------------------------------- one content under two names
\* the ledger uploader gets a copy of the statement under another name, or
\* a ledger of its own: the loader, cached by content and name, runs its
\* body on the same raw rows twice
InitTwice ==
  /\ \E b \in BankLoadFiles :
       \E l \in {b} \cup LedgerLoadFiles :
         disk = [f \in FileNames |-> IF f = BankFileName THEN b ELSE l]
  /\ EmptySession

SpecTwice == InitTwice /\ [][Next]_vars

\* ------------------------------------------------- several manual rounds
\* a statement of up to three payments of 1.00 and 1.01 and a ledger in
\* which one entry resembles the payment of day 1 and the other does not:
\* rows are left over after a manual round.  All amounts are whole cents.
RoundsBankRowDomain ==
  { [date |-> <<1, 0>>, name |-> "Acme Corp", memo |-> "inv", amount |-> <<500>>],
    [date |-> <<2, 0>>, name |-> "Acme Corp", memo |-> "inv", amount |-> <<505>>] }

RoundsLedgerRowDomain ==
  { [date |-> <<1, 1>>, name |-> "ACME CORPORATION", memo |-> "inv", amount |-> <<500>>],
    [date |-> <<1, 0>>, name |-> "Zylo Inc",         memo |-> "fee", amount |-> <<500>>] }

InitRounds ==
  /\ \E b \in SeqsUpTo(RoundsBankRowDomain, MaxRoundsBankRows),
        l \in SeqsUpTo(RoundsLedgerRowDomain, MaxLedgerRows) :
       disk = [f \in FileNames |-> StandardFile(IF f = BankFileName THEN b ELSE l)]
  /\ EmptySession

SpecRounds == InitRounds /\ [][Next]_vars

\* ---------------------------------------------------- the automatic pass
\* the files are loaded and reconciled automatically; no manual round
InitAuto ==
  /\ \E b \in SeqsUpTo(AutoBankRowDomain, MaxBankRows),
        l \in SeqsUpTo(AutoLedgerRowDomain, MaxLedgerRows) :
       disk = [f \in FileNames |-> StandardFile(IF f = BankFileName THEN b ELSE l)]
  /\ EmptySession

NextAuto ==
  \/ \E f \in FileNames : UploadBank(f)
  \/ UploadLedger(LedgerFileName)

SpecAuto == InitAuto /\ [][NextAuto]_vars

\* ------------------------------------------------------------- properties
\* the ids a submitted selection can hold on each side
BankSelections == SUBSET RowIds(bank_df_full)
LedgerSelections == SUBSET RowIds(ledger_df_full)

\* the whole number of cents nearest to an amount in fifths of a cent
NearestCent(a) ==
  CHOOSE c \in (a \div 5) .. (a \div 5) + 1 : 5 * c - 2 <= a /\ a <= 5 * c + 2

\* the cent total of the rows of a list whose ids are selected
SelectedCents(display, ids) ==
  NearestCent(SumAmount(SelectSeq(display, LAMBDA r : r.row_id \in ids)))

\* the rows of a list that are not selected, in the order of the list
Without(display, ids) == SelectSeq(display, LAMBDA r : r.row_id \notin ids)

Abs(x) == IF x < 0 THEN -x ELSE x

\* a selection all of whose ids are in the list
AllPresent(display, ids) == ids \subseteq RowIds(display)

\* a selection at least one of whose ids is in the list
SomePresent(display, ids) == ids \cap RowIds(display) # {}

\* the form can be submitted
CanSubmit == bank_file # None /\ ledger_file # None /\ message = NoMessage

UnmatchedLists == << unmatched_bank_display, unmatched_ledger_display >>

\* C1: a manual round whose selected subsets have different rounded sums is
\* rejected with the sum-mismatch error, and a round rejected that way leaves
\* both unmatched lists (members and order) exactly as they were.
C1_RejectedRoundChangesNothing ==
  /\ [](CanSubmit =>
          \A sb \in BankSelections, sl \in LedgerSelections :
            ( /\ SomePresent(unmatched_bank_display, sb)
              /\ SomePresent(unmatched_ledger_display, sl)
              /\ SelectedCents(unmatched_bank_display, sb)
                   # SelectedCents(unmatched_ledger_display, sl) )
            => LET r == PerformManualReconciliation(sb, sl)
               IN  /\ r.message.kind = "error_sum_mismatch"
                   /\ r.bank = unmatched_bank_display
                   /\ r.ledger = unmatched_ledger_display)
  /\ [][message'.kind = "error_sum_mismatch" => UNCHANGED UnmatchedLists]_vars

C1_Witness ==
  /\ message.kind = "error_sum_mismatch"
  /\ unmatched_bank_display # <<>>
  /\ unmatched_ledger_display # <<>>

\* C2: an accepted manual round removes from each unmatched list exactly the
\* submitted ids of that side; every other row stays, unchanged and in
\* order, and nothing enters.  Groups of any size are accepted.
C2_AcceptedRoundRemovesSubmitted ==
  /\ [](CanSubmit =>
          \A sb \in BankSelections, sl \in LedgerSelections :
            LET r == PerformManualReconciliation(sb, sl)
            IN  r.message.kind = "success"
                => /\ r.bank = Without(unmatched_bank_display, sb)
                   /\ r.ledger = Without(unmatched_ledger_display, sl)
                   /\ RowIds(r.bank) = RowIds(unmatched_bank_display) \ sb
                   /\ RowIds(r.ledger) = RowIds(unmatched_ledger_display) \ sl)
  /\ [][message'.kind = "success" =>
         /\ unmatched_bank_display'
              = Without(unmatched_bank_display,
                        RowIds(unmatched_bank_display) \ RowIds(unmatched_bank_display'))
         /\ unmatched_ledger_display'
              = Without(unmatched_ledger_display,
                        RowIds(unmatched_ledger_display) \ RowIds(unmatched_ledger_display'))
         /\ Len(unmatched_bank_display') < Len(unmatched_bank_display)
         /\ Len(unmatched_ledger_display') < Len(unmatched_ledger_display)]_vars

\* two bank rows have been reconciled against one ledger row in one round
C2_Witness ==
  /\ message.kind = "success"
  /\ message.values[1] = 2
  /\ message.values[3] = 1
  /\ matched_pairs = <<>>
  /\ Cardinality(matched_bank) = 2
  /\ Cardinality(matched_ledger) = 1

\* C3: a manual round whose selections are non-empty and all currently
\* unmatched succeeds if and only if the two selected sums agree to the
\* cent; otherwise it is the sum-mismatch rejection.
C3_SumEqualityGate ==
  CanSubmit =>
  \A sb \in BankSelections, sl \in LedgerSelections :
    ( /\ sb # {} /\ sl # {}
      /\ AllPresent(unmatched_bank_display, sb)
      /\ AllPresent(unmatched_ledger_display, sl) )
    => LET r == PerformManualReconciliation(sb, sl)
           equal == SelectedCents(unmatched_bank_display, sb)
                      = SelectedCents(unmatched_ledger_display, sl)
       IN  /\ r.message.kind \in {"success", "error_sum_mismatch"}
           /\ r.message.kind = "success" <=> equal

\* a round was rejected for a difference of exactly one cent
C3_Witness ==
  /\ message.kind = "error_sum_mismatch"
  /\ Abs(message.values[1] - message.values[2]) = 1

\* C4: on each side the unmatched ids and the ids committed as matched (by
\* the automatic pass or by manual rounds) are disjoint and together are
\* exactly the ids of the normalized frame, each id once.
C4_ClosedWorld ==
  /\ RowIds(unmatched_bank_display) \cup matched_bank = RowIds(bank_df_full)
  /\ RowIds(unmatched_bank_display) \cap matched_bank = {}
  /\ Cardinality(RowIds(unmatched_bank_display)) = Len(unmatched_bank_display)
  /\ Cardinality(RowIds(bank_df_full)) = Len(bank_df_full)
  /\ RowIds(unmatched_ledger_display) \cup matched_ledger = RowIds(ledger_df_full)
  /\ RowIds(unmatched_ledger_display) \cap matched_ledger = {}
  /\ Cardinality(RowIds(unmatched_ledger_display)) = Len(unmatched_ledger_display)
  /\ Cardinality(RowIds(ledger_df_full)) = Len(ledger_df_full)

\* ids have been committed by the automatic pass and by a manual round
C4_Witness ==
  /\ matched_pairs # <<>>
  /\ Cardinality(matched_bank) > Len(matched_pairs)
  /\ Cardinality(matched_ledger) > Len(matched_pairs)

\* C5: a manual round in which some selected id is not in the unmatched list
\* of its side fails with the not-found error and changes neither list, also
\* when other selected ids are present.
C5_StaleSelectionIsNotFound ==
  CanSubmit =>
  \A sb \in BankSelections, sl \in LedgerSelections :
    ( /\ sb # {} /\ sl # {}
      /\ \/ ~AllPresent(unmatched_bank_display, sb)
         \/ ~AllPresent(unmatched_ledger_display, sl) )
    => LET r == PerformManualReconciliation(sb, sl)
       IN  /\ r.message.kind = "error_not_found"
           /\ r.bank = unmatched_bank_display
           /\ r.ledger = unmatched_ledger_display

\* C6: a manual round with an empty bank selection or an empty ledger
\* selection ends with the empty-selection warning, whatever the other
\* selection holds and with no sum in the report, and changes neither list.
C6_EmptySelectionWarns ==
  /\ [](CanSubmit =>
          \A sb \in BankSelections, sl \in LedgerSelections :
            (sb = {} \/ sl = {})
            => LET r == PerformManualReconciliation(sb, sl)
               IN  /\ r.message = [kind |-> "warning_empty_selection", values |-> <<>>]
                   /\ r.bank = unmatched_bank_display
                   /\ r.ledger = unmatched_ledger_display)
  /\ [][message'.kind = "warning_empty_selection" => UNCHANGED UnmatchedLists]_vars

\* the warning was given while both lists had rows to select
C6_Witness ==
  /\ message.kind = "warning_empty_selection"
  /\ unmatched_bank_display # <<>>
  /\ unmatched_ledger_display # <<>>

\* C7 (as claimed): the value reported by a rejected manual round is the
\* discrepancy |bankSum - ledgerSum| of the two rounded sums.
C7_ReportsDiscrepancy ==
  CanSubmit =>
  \A sb \in BankSelections, sl \in LedgerSelections :
    LET r == PerformManualReconciliation(sb, sl)
    IN  r.message.kind = "error_sum_mismatch"
        => r.message.values = << Abs(SelectedCents(unmatched_bank_display, sb)
                                     - SelectedCents(unmatched_ledger_display, sl)) >>

\* C7 (amended): a rejected manual round reports the two rounded sums, the
\* bank total and the ledger total of the selected rows, and the two differ;
\* the discrepancy is their difference and is not itself reported.
C7_ReportsBothTotals ==
  CanSubmit =>
  \A sb \in BankSelections, sl \in LedgerSelections :
    LET r == PerformManualReconciliation(sb, sl)
    IN  r.message.kind = "error_sum_mismatch"
        => /\ r.message.values = << SelectedCents(unmatched_bank_display, sb),
                                    SelectedCents(unmatched_ledger_display, sl) >>
           /\ r.message.values[1] # r.message.values[2]

\* a rejection whose ledger total is one cent above the bank total
C7_Witness ==
  /\ message.kind = "error_sum_mismatch"
  /\ message.values[2] - message.values[1] = 1

\* the ids retired in this session and the ids now unmatched
Retired == matched_bank \cup matched_ledger
CurrentlyUnmatched == RowIds(unmatched_bank_display) \cup RowIds(unmatched_ledger_display)

\* the step does not rebuild the session
SameSession ==
  /\ initial_unmatched_computed' = initial_unmatched_computed
  /\ bank_file_name' = bank_file_name
  /\ ledger_file_name' = ledger_file_name

\* C8: an id removed from an unmatched list, by the automatic pass or by an
\* accepted manual round, is in neither unmatched list in any later state
\* of the session.
C8_NoResurrection ==
  /\ [](Retired \cap CurrentlyUnmatched = {})
  /\ [][SameSession => /\ Retired \subseteq Retired'
                       /\ CurrentlyUnmatched' \subseteq CurrentlyUnmatched]_vars

\* a round with a retired id was submitted after the automatic pass and a
\* manual round had both removed ids
C8_Witness ==
  /\ message.kind = "error_not_found"
  /\ matched_pairs # <<>>
  /\ Cardinality(matched_bank) > Len(matched_pairs)

PairIndices == 1..Len(matched_pairs)

OppositeSigns(a, b) == (a < 0 /\ b > 0) \/ (a > 0 /\ b < 0)

\* the two rows of an accepted pair fall on one calendar day and have the
\* same nearest cent
SameDayAndCents(p) ==
  /\ p.bank.date[1] = p.ledger.date[1]
  /\ NearestCent(p.bank.amount) = NearestCent(p.ledger.amount)

\* C9 (as claimed): every pair accepted by the automatic pass has equal dates
\* and equal amounts rounded to the cent, and no accepted pair has amounts of
\* opposite signs.
C9_ExactKeyAndSameSign ==
  \A i \in PairIndices :
    /\ SameDayAndCents(matched_pairs[i])
    /\ ~OppositeSigns(matched_pairs[i].bank.amount, matched_pairs[i].ledger.amount)

\* C9 (amended): every pair accepted by the automatic pass has equal dates
\* and equal amounts rounded to the cent; a pair of opposite signs is
\* accepted only when both amounts round to zero cents.
C9_ExactKeyNecessity ==
  \A i \in PairIndices :
    /\ SameDayAndCents(matched_pairs[i])
    /\ OppositeSigns(matched_pairs[i].bank.amount, matched_pairs[i].ledger.amount)
         => /\ NearestCent(matched_pairs[i].bank.amount) = 0
            /\ NearestCent(matched_pairs[i].ledger.amount) = 0

\* a pair was accepted whose amounts differ below the cent and whose
\* timestamps differ within the day
C9_Witness ==
  \E i \in PairIndices :
    /\ matched_pairs[i].bank.amount # matched_pairs[i].ledger.amount
    /\ matched_pairs[i].bank.amount > 2
    /\ matched_pairs[i].bank.date # matched_pairs[i].ledger.date

\* C10: after the automatic pass no bank id and no ledger id is in more than
\* one accepted pair.
C10_GreedyOneToOne ==
  \A i, j \in PairIndices :
    i # j => /\ matched_pairs[i].bank.row_id # matched_pairs[j].bank.row_id
             /\ matched_pairs[i].ledger.row_id # matched_pairs[j].ledger.row_id

\* two pairs were accepted among four rows that all share one key
C10_Witness ==
  /\ Len(matched_pairs) = 2
  /\ MergeKey(matched_pairs[1].bank) = MergeKey(matched_pairs[2].bank)
  /\ MergeKey(matched_pairs[1].ledger) = MergeKey(matched_pairs[2].bank)
  /\ matched_pairs[1].bank.row_id # matched_pairs[1].ledger.row_id

\* the candidate rows of the exact-key matcher for the frames of the session
Candidates == MergeExact(bank_df_full, ledger_df_full)

CandidateIndices == 1..Len(Candidates)

\* candidate k is one of the accepted pairs
Accepted(k) == \E i \in PairIndices : matched_pairs[i] = Candidates[k]

\* a row of candidate k is in an accepted candidate that comes before it
ConsumedBefore(k) ==
  \E j \in 1..(k - 1) :
    /\ Accepted(j)
    /\ \/ Candidates[j].bank.row_id = Candidates[k].bank.row_id
       \/ Candidates[j].ledger.row_id = Candidates[k].ledger.row_id

\* the similarity score of the two names of candidate k
Score(k) == PartialRatio(Candidates[k].bank.name_lower, Candidates[k].ledger.name_lower)

\* the place of an accepted pair among the candidates
CandidateIndex(i) == CHOOSE k \in CandidateIndices : Candidates[k] = matched_pairs[i]

ConsumedBankIds == { matched_pairs[i].bank.row_id : i \in PairIndices }
ConsumedLedgerIds == { matched_pairs[i].ledger.row_id : i \in PairIndices }

\* C11: going through the candidates in the matcher's order, a candidate is
\* accepted exactly when its score is above 80 and no earlier accepted
\* candidate holds one of its rows; the accepted pairs are candidates, in
\* candidate order, and only accepted pairs consume ids.
C11_AcceptRule ==
  /\ \A k \in CandidateIndices : Accepted(k) <=> (Score(k) > 80 /\ ~ConsumedBefore(k))
  /\ \A i \in PairIndices : \E k \in CandidateIndices : Candidates[k] = matched_pairs[i]
  /\ \A i, j \in PairIndices : i < j => CandidateIndex(i) < CandidateIndex(j)
  /\ matched_bank = ConsumedBankIds
  /\ matched_ledger = ConsumedLedgerIds

\* a candidate scoring exactly 80 was rejected and its bank row accepted
\* with a later candidate, and a candidate scoring above 80 was passed over
\* because its ledger row was taken
C11_Witness ==
  /\ \E k \in CandidateIndices, m \in CandidateIndices :
       /\ Score(k) = 80 /\ ~Accepted(k)
       /\ k < m /\ Accepted(m)
       /\ Candidates[m].bank.row_id = Candidates[k].bank.row_id
  /\ \E k \in CandidateIndices : Score(k) > 80 /\ ~Accepted(k)

\* the number of candidates made of bank row i and ledger row j
TimesCandidate(i, j) ==
  Cardinality({ k \in CandidateIndices :
                  /\ Candidates[k].bank = bank_df_full[i]
                  /\ Candidates[k].ledger = ledger_df_full[j] })

\* C12: the candidates are the equi-join of the two frames: each pair of a
\* bank row and a ledger row of equal day and equal cents is a candidate
\* once, and nothing else is.
C12_CandidatesAreEquiJoin ==
  /\ \A i \in 1..Len(bank_df_full), j \in 1..Len(ledger_df_full) :
       TimesCandidate(i, j)
         = IF SameDayAndCents([bank |-> bank_df_full[i], ledger |-> ledger_df_full[j]])
           THEN 1 ELSE 0
  /\ \A k \in CandidateIndices :
       \E i \in 1..Len(bank_df_full), j \in 1..Len(ledger_df_full) :
         /\ Candidates[k].bank = bank_df_full[i]
         /\ Candidates[k].ledger = ledger_df_full[j]

\* one bank row is in two candidates (with amounts that differ below the
\* cent) while another bank row is in none
C12_Witness ==
  /\ \E k, m \in CandidateIndices :
       /\ k # m
       /\ Candidates[k].bank = Candidates[m].bank
       /\ Candidates[k].bank.amount # Candidates[k].ledger.amount
  /\ \E i \in 1..Len(bank_df_full) :
       \A k \in CandidateIndices : Candidates[k].bank # bank_df_full[i]

\* a frame and a display list hold the same transactions in the same order
SameTransactions(df, display) ==
  /\ Len(df) = Len(display)
  /\ \A i \in 1..Len(df) :
       /\ df[i].row_id = display[i].row_id
       /\ df[i].date = display[i].date
       /\ df[i].name = display[i].name
       /\ df[i].memo = display[i].memo
       /\ df[i].amount = display[i].amount

\* C13: after the automatic pass the unmatched list of each side is the
\* normalized frame of that side without the rows of accepted pairs, in the
\* order of the frame; a row of a rejected candidate or of no candidate is
\* still unmatched.
C13_UnmatchedAfterAutomaticPass ==
  /\ SameTransactions(Without(bank_df_full, ConsumedBankIds), unmatched_bank_display)
  /\ SameTransactions(Without(ledger_df_full, ConsumedLedgerIds), unmatched_ledger_display)
  /\ \A i \in 1..Len(bank_df_full) :
       (\A p \in PairIndices : matched_pairs[p].bank # bank_df_full[i])
         => bank_df_full[i].row_id \in RowIds(unmatched_bank_display)
  /\ \A j \in 1..Len(ledger_df_full) :
       (\A p \in PairIndices : matched_pairs[p].ledger # ledger_df_full[j])
         => ledger_df_full[j].row_id \in RowIds(unmatched_ledger_display)

\* a pair was accepted while both rows of a candidate rejected for its
\* score stayed unmatched
C13_Witness ==
  /\ matched_pairs # <<>>
  /\ \E k \in CandidateIndices :
       /\ Score(k) <= 80
       /\ Candidates[k].bank.row_id \in RowIds(unmatched_bank_display)
       /\ Candidates[k].ledger.row_id \in RowIds(unmatched_ledger_display)
       /\ Candidates[k].bank.row_id \notin RowIds(unmatched_ledger_display)

\* the ids that leave each unmatched list in a step
RemovedBank == RowIds(unmatched_bank_display) \ RowIds(unmatched_bank_display')
RemovedLedger == RowIds(unmatched_ledger_display) \ RowIds(unmatched_ledger_display')

NewFilesSupplied ==
  /\ bank_file' # bank_file \/ ledger_file' # ledger_file \/ disk' # disk
  /\ bank_file' # None /\ ledger_file' # None

\* a frame holds the rows of a file of the standard header row, in order
FrameOfFile(df, file) ==
  /\ Len(df) = Len(file.rows)
  /\ \A i \in 1..Len(df) :
       /\ df[i].date = file.rows[i].date
       /\ df[i].name = file.rows[i].name
       /\ df[i].memo = file.rows[i].memo
       /\ << df[i].amount >> = file.rows[i].amount

\* the session is the automatic pass over the given files and nothing else
FreshSessionOf(bank, ledger) ==
  /\ FrameOfFile(bank_df_full, bank)
  /\ FrameOfFile(ledger_df_full, ledger)
  /\ SameTransactions(Without(bank_df_full, ConsumedBankIds), unmatched_bank_display)
  /\ SameTransactions(Without(ledger_df_full, ConsumedLedgerIds), unmatched_ledger_display)
  /\ matched_bank = ConsumedBankIds
  /\ matched_ledger = ConsumedLedgerIds
  /\ C11_AcceptRule

\* C15 (as claimed): whenever new input files are supplied the session is
\* rebuilt whole: the frames are those of the new files and the unmatched
\* lists the result of the automatic pass over them, with nothing left of
\* earlier manual rounds or of the previous files.
C15_NewFilesRebuildSession ==
  [][NewFilesSupplied => FreshSessionOf(disk[bank_file], disk[ledger_file])']_vars

\* the form is on the page: both uploaders hold a file
FormShown == bank_file # None /\ ledger_file # None

\* a frame is what the loader returned for a file of the given name
LoadedFrom(df, file_name) == \E k \in DOMAIN cache : k[2] = file_name /\ cache[k] = df

\* the session holds normalized data of both files in the uploaders and the
\* result of one automatic pass over them
SessionReady ==
  /\ initial_unmatched_computed
  /\ bank_file_name = bank_file
  /\ ledger_file_name = ledger_file
  /\ LoadedFrom(bank_df_full, bank_file)
  /\ LoadedFrom(ledger_df_full, ledger_file)
  /\ \A k \in CandidateIndices : Accepted(k) <=> (Score(k) > 80 /\ ~ConsumedBefore(k))
  /\ ConsumedBankIds \subseteq matched_bank
  /\ ConsumedLedgerIds \subseteq matched_ledger

\* C16: the form, and with it a manual round, exists only in a session that
\* holds the normalized data of both files and the result of the automatic
\* pass over them; a manual round or a re-display stays in the session and
\* does not run the pass again: frames and accepted pairs stay, the loader
\* is not called and no removed row returns.
C16_SessionOrdering ==
  /\ [](FormShown => SessionReady)
  /\ [][message'.kind \in ManualMessageKinds => (FormShown /\ SessionReady /\ SameSession)]_vars
  /\ [][SameSession =>
          /\ UNCHANGED << bank_df_full, ledger_df_full, matched_pairs, cache, uuid_counter >>
          /\ RowIds(unmatched_bank_display') \subseteq RowIds(unmatched_bank_display)
          /\ RowIds(unmatched_ledger_display') \subseteq RowIds(unmatched_ledger_display)]_vars

\* the page was drawn again after a manual round had removed rows, and the
\* removal is still in place
C16_Witness ==
  /\ FormShown
  /\ message = NoMessage
  /\ matched_pairs # <<>>
  /\ matched_bank # ConsumedBankIds

\* C17 (as claimed): no two transactions of a session share an id, on one
\* side or across the two sides, so no id is in both unmatched lists, also
\* when one file is in both uploaders.
C17_IdsUniqueInSession ==
  /\ Cardinality(RowIds(bank_df_full)) = Len(bank_df_full)
  /\ Cardinality(RowIds(ledger_df_full)) = Len(ledger_df_full)
  /\ RowIds(bank_df_full) \cap RowIds(ledger_df_full) = {}
  /\ RowIds(unmatched_bank_display) \cap RowIds(unmatched_ledger_display) = {}

\* the unmatched rows as the download holds them: bank rows, then ledger
\* rows, each with its source, without row_id
ExportRow(r, source) ==
  [date |-> r.date, name |-> r.name, memo |-> r.memo, amount |-> r.amount, source |-> source]

\* a download that holds the bank rows only
CsvUnmatchedBankOnly ==
  [ i \in 1..Len(unmatched_bank_display) |-> ExportRow(unmatched_bank_display[i], "BANK") ]

CsvUnmatched ==
  [ i \in 1..Len(unmatched_bank_display) |-> ExportRow(unmatched_bank_display[i], "BANK") ]
    \o [ i \in 1..Len(unmatched_ledger_display) |-> ExportRow(unmatched_ledger_display[i], "LEDGER") ]

\* header h of a header row stands for the target column
Resolves(h, target) == FuzzRatio(CleanHeader(h), CleanHeader(target)) >= 80

Resolvable(columns, target) == \E i \in 1..Len(columns) : Resolves(columns[i], target)

\* the cell of a raw row under the header that stands for the target
CellOf(file, r, target) ==
  r[CHOOSE h \in { file.columns[i] : i \in 1..Len(file.columns) } : Resolves(h, target)]

\* the amount of a raw row is exactly zero: the amount cell is 0, or the
\* amount is derived and credit equals debit
RawZero(file, r) ==
  IF Resolvable(file.columns, "Amount")
  THEN CellOf(file, r, "Amount") = <<0>>
  ELSE /\ CellOf(file, r, "Debit") # <<>>
       /\ CellOf(file, r, "Credit") = CellOf(file, r, "Debit")

\* the indices of the raw rows of a file whose amount is not zero
NonZeroRows(file) == { j \in 1..Len(file.rows) : ~RawZero(file, file.rows[j]) }

\* the amounts in the session and in the download
SessionAmounts ==
  { bank_df_full[i].amount : i \in 1..Len(bank_df_full) }
    \cup { ledger_df_full[i].amount : i \in 1..Len(ledger_df_full) }
    \cup { unmatched_bank_display[i].amount : i \in 1..Len(unmatched_bank_display) }
    \cup { unmatched_ledger_display[i].amount : i \in 1..Len(unmatched_ledger_display) }
    \cup { CsvUnmatched[i].amount : i \in 1..Len(CsvUnmatched) }

\* C18: a raw row whose amount is zero yields no transaction: every frame
\* the loader returned has at most as many rows as its file has rows of
\* non-zero amount and none of amount zero, and no row of amount zero is in
\* a frame of the session, in an unmatched list or in the download.
C18_ZeroAmountDropped ==
  /\ \A k \in DOMAIN cache :
       /\ Len(cache[k]) <= Cardinality(NonZeroRows(k[1]))
       /\ \A i \in 1..Len(cache[k]) : cache[k][i].amount # 0
  /\ 0 \notin SessionAmounts

\* a statement with a zero row was loaded, its other rows are unmatched and
\* in the download
C18_Witness ==
  /\ FormShown
  /\ initial_unmatched_computed
  /\ bank_file_name = BankFileName
  /\ NonZeroRows(disk[BankFileName]) # 1..Len(disk[BankFileName].rows)
  /\ unmatched_bank_display # <<>>
  /\ Len(CsvUnmatched) > Len(unmatched_bank_display)

DateUnparseable(file, r) == CellOf(file, r, "Date") = <<>>

\* the amount cell did not parse, or the amount is derived and the debit or
\* the credit cell did not parse
AmountUnparseable(file, r) ==
  IF Resolvable(file.columns, "Amount")
  THEN CellOf(file, r, "Amount") = <<>>
  ELSE CellOf(file, r, "Debit") = <<>> \/ CellOf(file, r, "Credit") = <<>>

\* transaction t was made from raw row r (the rows of a file are told apart
\* by date, name and memo)
MadeFrom(file, t, r) ==
  /\ t.date = CellOf(file, r, "Date")
  /\ t.name = CellOf(file, r, "Name")
  /\ t.memo = CellOf(file, r, "Memo")

\* C19 (as claimed): a raw row whose date or amount did not parse yields no
\* transaction in the frame the loader returns, with an amount column and
\* with debit and credit columns alike.
C19_UnparseableRowsDropped ==
  \A k \in DOMAIN cache :
    \A j \in 1..Len(k[1].rows) :
      (DateUnparseable(k[1], k[1].rows[j]) \/ AmountUnparseable(k[1], k[1].rows[j]))
        => \A i \in 1..Len(cache[k]) : ~MadeFrom(k[1], cache[k][i], k[1].rows[j])

\* the header row lacks what the loader needs: a date, a name or a memo
\* column, or an amount column and also one of debit and credit
SchemaInError(columns) ==
  \/ ~Resolvable(columns, "Date")
  \/ ~Resolvable(columns, "Name")
  \/ ~Resolvable(columns, "Memo")
  \/ /\ ~Resolvable(columns, "Amount")
     /\ ~Resolvable(columns, "Debit") \/ ~Resolvable(columns, "Credit")

SchemaErrorKinds == { "error_missing_columns", "error_missing_amount" }

\* the required columns an error names
NamedMissing(columns) ==
  SelectSeq(<< "Date", "Name", "Memo" >>, LAMBDA t : ~Resolvable(columns, t))

\* C20: with both uploaders filled the run ends in a schema error exactly
\* when the header row of one of the files lacks a date, name or memo
\* column or a source for the amount, and the error names the missing
\* required columns; no frame is returned for such a file, and the step
\* that reports the error leaves the session state as it was.
C20_SchemaErrorLeavesState ==
  /\ [](FormShown =>
          /\ message.kind \in SchemaErrorKinds
               <=> (SchemaInError(disk[bank_file].columns)
                      \/ SchemaInError(disk[ledger_file].columns))
          /\ message.kind = "error_missing_columns"
               => \/ message.values = NamedMissing(disk[bank_file].columns)
                  \/ message.values = NamedMissing(disk[ledger_file].columns))
  /\ [](\A k \in DOMAIN cache : ~SchemaInError(k[1].columns))
  /\ [][message'.kind \in SchemaErrorKinds => UNCHANGED SessionState]_vars

\* a statement without a usable amount stopped the script while the
\* session of two earlier files, with a manual removal, stayed as it was
C20_Witness ==
  /\ message.kind = "error_missing_amount"
  /\ initial_unmatched_computed
  /\ bank_file # bank_file_name
  /\ bank_df_full # <<>>

\* the debit and the credit cell of a raw row are both numbers
BothParsed(file, r) ==
  CellOf(file, r, "Debit") # <<>> /\ CellOf(file, r, "Credit") # <<>>

\* credit minus debit of a raw row whose two cells are numbers
CreditMinusDebit(file, r) == CellOf(file, r, "Credit")[1] - CellOf(file, r, "Debit")[1]

\* the frames the loader returned for files that have a debit and a credit
\* column and no amount column
DerivedAmountKeys ==
  { k \in DOMAIN cache :
      /\ ~Resolvable(k[1].columns, "Amount")
      /\ Resolvable(k[1].columns, "Debit")
      /\ Resolvable(k[1].columns, "Credit") }

SameExceptId(df1, df2) ==
  /\ Len(df1) = Len(df2)
  /\ \A i \in 1..Len(df1) :
       /\ df1[i].date = df2[i].date
       /\ df1[i].name = df2[i].name
       /\ df1[i].memo = df2[i].memo
       /\ df1[i].amount = df2[i].amount
       /\ df1[i].name_lower = df2[i].name_lower

RemovedBankRows == SelectSeq(unmatched_bank_display, LAMBDA r : r.row_id \in RemovedBank)
RemovedLedgerRows == SelectSeq(unmatched_ledger_display, LAMBDA r : r.row_id \in RemovedLedger)

\* C23 (as claimed): the success report of a manual round states, for each
\* side, the number of transactions the round removed from that side's
\* unmatched list and their total to the cent, the two totals being equal.
C23_ReportCountsRemoved ==
  [][message'.kind = "success" =>
       /\ message'.values[1] = Len(RemovedBankRows)
       /\ message'.values[3] = Len(RemovedLedgerRows)
       /\ message'.values[2] = NearestCent(SumAmount(RemovedBankRows))
       /\ message'.values[4] = NearestCent(SumAmount(RemovedLedgerRows))
       /\ message'.values[2] = message'.values[4]]_vars

\* the rows of a frame that were never committed as matched, as the download
\* would show them for the given side
UnmatchedOf(df, matched, side) ==
  LET rest == SelectSeq(df, LAMBDA r : r.row_id \notin matched)
  IN  [ i \in 1..Len(rest) |->
          [date |-> rest[i].date, name |-> rest[i].name, memo |-> rest[i].memo,
           amount |-> rest[i].amount, source |-> side] ]

\* C24: the download holds the transactions of the bank frame not committed
\* as matched (by the automatic pass or a manual round), in frame order and
\* tagged BANK, followed by those of the ledger frame, tagged LEDGER: every
\* unmatched transaction once, no matched one, and no id column.
C24_ExportIsUnmatched ==
  /\ CsvUnmatched
       = UnmatchedOf(bank_df_full, matched_bank, "BANK")
           \o UnmatchedOf(ledger_df_full, matched_ledger, "LEDGER")
  /\ Len(CsvUnmatched)
       = (Len(bank_df_full) - Cardinality(matched_bank))
           + (Len(ledger_df_full) - Cardinality(matched_ledger))
  /\ \A i \in 1..Len(CsvUnmatched) :
       DOMAIN CsvUnmatched[i] = { "date", "name", "memo", "amount", "source" }

\* after an accepted manual round the download still holds a bank row and
\* a ledger row
C24_Witness ==
  /\ message.kind = "success"
  /\ \E i, j \in 1..Len(CsvUnmatched) :
       /\ i < j
       /\ CsvUnmatched[i].source = "BANK"
       /\ CsvUnmatched[j].source = "LEDGER"

\* the ids of a list of rows, in order
IdsInOrder(df) == [ i \in 1..Len(df) |-> df[i].row_id ]

\* the id pairs of a list of accepted rows, in order
PairIds(pairs) == [ i \in 1..Len(pairs) |-> << pairs[i].bank.row_id, pairs[i].ledger.row_id >> ]

\* a frame with the same ids, dates, amounts and names and no memos
WithoutMemo(df) == [ i \in 1..Len(df) |-> [df[i] EXCEPT !.memo = ""] ]

InOrderOf(display, df) ==
  /\ IdsInOrder(display)
       = IdsInOrder(SelectSeq(df, LAMBDA r : r.row_id \in RowIds(display)))
  /\ \A i \in 1..Len(display) :
       \E j \in 1..Len(df) :
         /\ df[j].row_id = display[i].row_id
         /\ df[j].date = display[i].date /\ df[j].name = display[i].name
         /\ df[j].memo = display[i].memo /\ df[j].amount = display[i].amount

\* C26: after the automatic pass and after any manual rounds the rows of
\* each unmatched list stand in the order they have in the normalized frame
\* of their side, which is the order of the rows of the file.
C26_InsertionOrderKept ==
  /\ InOrderOf(unmatched_bank_display, bank_df_full)
  /\ InOrderOf(unmatched_ledger_display, ledger_df_full)
  /\ initial_unmatched_computed
       => /\ FrameOfFile(bank_df_full, disk[bank_file_name])
          /\ FrameOfFile(ledger_df_full, disk[ledger_file_name])

\* a manual round took the second of three bank rows; the first and the
\* third are left, in that order
C26_Witness ==
  /\ message.kind = "success"
  /\ Len(bank_df_full) = 3
  /\ IdsInOrder(unmatched_bank_display) = << bank_df_full[1].row_id, bank_df_full[3].row_id >>

\* the amounts of a list of rows are whole cents
WholeCents(df) == \A i \in 1..Len(df) : df[i].amount % 5 = 0

\* the sum of the bank rows minus the sum of the ledger rows
Difference(bank, ledger) == SumAmount(bank) - SumAmount(ledger)

\* C27: with amounts of whole cents the unreconciled difference is
\* conserved: in every state the sum of the unmatched bank rows minus the
\* sum of the unmatched ledger rows is the sum of all bank rows minus the
\* sum of all ledger rows, the two rows of every pair of the automatic
\* pass having the same amount and the rows committed on the two sides
\* the same total.
C27_DifferenceConserved ==
  /\ WholeCents(bank_df_full) /\ WholeCents(ledger_df_full)
  /\ \A i \in PairIndices : matched_pairs[i].bank.amount = matched_pairs[i].ledger.amount
  /\ SumAmount(IsIn(bank_df_full, matched_bank)) = SumAmount(IsIn(ledger_df_full, matched_ledger))
  /\ Difference(unmatched_bank_display, unmatched_ledger_display)
       = Difference(bank_df_full, ledger_df_full)

\* the automatic pass and a manual round have both removed rows, and a
\* bank row of 1.01 is what is left of the difference
C27_Witness ==
  /\ message.kind = "success"
  /\ matched_pairs # <<>>
  /\ matched_bank # ConsumedBankIds
  /\ Difference(unmatched_bank_display, unmatched_ledger_display) = 505

\* bank row i and ledger row j could be paired: same day, same cents, and
\* names that score above the threshold
Pairable(i, j) ==
  /\ SameDayAndCents([bank |-> bank_df_full[i], ledger |-> ledger_df_full[j]])
  /\ PartialRatio(bank_df_full[i].name_lower, ledger_df_full[j].name_lower) > 80

\* C28: the matching of the automatic pass is maximal: when the pass has
\* ended no bank row and ledger row that could be paired are both still
\* unmatched.
C28_GreedyIsMaximal ==
  \A i \in 1..Len(bank_df_full), j \in 1..Len(ledger_df_full) :
    Pairable(i, j)
      => \/ bank_df_full[i].row_id \notin RowIds(unmatched_bank_display)
         \/ ledger_df_full[j].row_id \notin RowIds(unmatched_ledger_display)

\* one pair was accepted and a second bank row that could have been paired
\* with the same ledger row is left, beside a ledger row that scores
\* exactly 80 against it
C28_Witness ==
  /\ Len(matched_pairs) = 1
  /\ \E i \in 1..Len(bank_df_full), j, m \in 1..Len(ledger_df_full) :
       /\ Pairable(i, j)
       /\ bank_df_full[i].row_id \in RowIds(unmatched_bank_display)
       /\ ledger_df_full[j].row_id = matched_pairs[1].ledger.row_id
       /\ ledger_df_full[m].row_id \in RowIds(unmatched_ledger_display)
       /\ PartialRatio(bank_df_full[i].name_lower, ledger_df_full[m].name_lower) = 80

\* the ids committed by manual rounds of the session
ManualBank == matched_bank \ ConsumedBankIds
ManualLedger == matched_ledger \ ConsumedLedgerIds

\* the sizes of the unmatched lists
ListSizes == << Len(unmatched_bank_display), Len(unmatched_ledger_display) >>

\* C29: within a session the unmatched lists never grow; an accepted manual
\* round takes at least one row from each list and commits at least one
\* new id on each side, the rows committed by manual rounds and the rows
\* still unmatched making up the list the automatic pass left, so that
\* there are at most as many accepted rounds as the shorter list had rows;
\* and with an empty list no selection is accepted.
C29_RoundsAreBounded ==
  /\ []( /\ Cardinality(ManualBank) + Len(unmatched_bank_display)
               = Len(bank_df_full) - Cardinality(ConsumedBankIds)
         /\ Cardinality(ManualLedger) + Len(unmatched_ledger_display)
               = Len(ledger_df_full) - Cardinality(ConsumedLedgerIds) )
  /\ []((CanSubmit /\ 0 \in { ListSizes[1], ListSizes[2] })
          => \A sb \in BankSelections, sl \in LedgerSelections :
               PerformManualReconciliation(sb, sl).message.kind # "success")
  /\ [][SameSession => /\ ListSizes'[1] <= ListSizes[1]
                       /\ ListSizes'[2] <= ListSizes[2]]_vars
  /\ [][message'.kind = "success" =>
         /\ ListSizes'[1] < ListSizes[1]
         /\ ListSizes'[2] < ListSizes[2]
         /\ Cardinality(ManualBank') > Cardinality(ManualBank)
         /\ Cardinality(ManualLedger') > Cardinality(ManualLedger)]_vars

\* after manual rounds the bank list is empty while a ledger row is left,
\* and a further round was refused
C29_Witness ==
  /\ message.kind = "error_not_found"
  /\ matched_pairs = <<>>
  /\ ManualBank # {}
  /\ unmatched_bank_display = <<>>
  /\ unmatched_ledger_display # <<>>

\* a total taken over the unmatched list instead of the full frame
bank_total_of_unmatched == SumAmount(unmatched_bank_display)

\* the three cards of the page: df['amount'].sum() of each full frame, 0.00
\* for an empty frame, and their difference
bank_total == IF bank_df_full # <<>> THEN SumAmount(bank_df_full) ELSE 0
ledger_total == IF ledger_df_full # <<>> THEN SumAmount(ledger_df_full) ELSE 0
difference == bank_total - ledger_total

Totals == << bank_total, ledger_total, difference >>

\* the sum of the amount cells of the raw rows of a file
RECURSIVE RawTotal(_)
RawTotal(rows) == IF rows = <<>> THEN 0 ELSE Head(rows).amount[1] + RawTotal(Tail(rows))

\* the sum of the amounts of the rows of a frame with the given ids
TotalOf(df, ids) == SumAmount(SelectSeq(df, LAMBDA r : r.row_id \in ids))

\* C30: the bank total and the ledger total are the sums over all
\* transactions the loader made of the file of each side, matched or not,
\* and the third value is the bank total minus the ledger total; the
\* automatic pass and accepted and rejected manual rounds leave the three
\* values as they are, and a step that changes one of them is a rebuild of
\* the session for other files.
C30_TotalsAreFrameSums ==
  /\ [](initial_unmatched_computed =>
          /\ bank_total = RawTotal(disk[bank_file_name].rows)
          /\ ledger_total = RawTotal(disk[ledger_file_name].rows)
          /\ bank_total = SumAmount(unmatched_bank_display) + TotalOf(bank_df_full, matched_bank)
          /\ ledger_total
               = SumAmount(unmatched_ledger_display) + TotalOf(ledger_df_full, matched_ledger)
          /\ difference = RawTotal(disk[bank_file_name].rows)
                            - RawTotal(disk[ledger_file_name].rows))
  /\ [][SameSession => UNCHANGED Totals]_vars
  /\ [][message'.kind \in ManualMessageKinds => UNCHANGED Totals]_vars
  /\ [][Totals' # Totals =>
         /\ initial_unmatched_computed'
         /\ bank_file_name' = bank_file' /\ ledger_file_name' = ledger_file'
         /\ bank_file_name' # bank_file_name \/ ledger_file_name' # ledger_file_name]_vars

\* the automatic pass and a manual round have both removed rows; the bank
\* total still counts them and the difference is not zero
C30_Witness ==
  /\ message.kind = "success"
  /\ matched_pairs # <<>>
  /\ ManualBank # {}
  /\ bank_total > SumAmount(unmatched_bank_display)
  /\ unmatched_bank_display # <<>>
  /\ difference # 0

====
